---- MODULE Spec2Model ----
(***************************************************************************)
(* Recursive-backtracking maze generator (C++/mazes/maze1/maze.cpp).       *)
(*                                                                         *)
(* A run is one execution of main(): Maze::Maze builds the zeroed grid,    *)
(* BackTracker::BackTracker carves from (0,0) with create_passage_from,    *)
(* and Maze::draw renders the grid.  The recursion of create_passage_from  *)
(* is kept as an explicit call stack of frames (x, y, directions, i).      *)
(* Two runs can be stepped side by side; they read the same rand() stream  *)
(* when they were seeded alike (srand(_seed)).                             *)
(***************************************************************************)
EXTENDS Integers, Sequences, FiniteSets, TLC

\* ---- bounds of the model ----
MaxW == 2
MaxH == 2
MaxCells == 4
MaxSeed == 0
MaxRand == 1

Runs == {1, 2}

Other(p) == 3 - p

\* (width, height) pairs a run is constructed with: width >= 1, height >= 1
Dims == {d \in (1..MaxW) \X (1..MaxH) : d[1] * d[2] <= MaxCells}

Seeds == 0..MaxSeed

\* values rand() can return (0..RAND_MAX, cut down)
RandVals == 0..MaxRand

\* ---- direction bits and lookup tables (maze.h) ----
N == 1
S == 2
E == 4
W == 8

DX(d) == IF d = E THEN 1 ELSE IF d = W THEN -1 ELSE 0

DY(d) == IF d = S THEN 1 ELSE IF d = N THEN -1 ELSE 0

OPPOSITE(d) == IF d = N THEN S ELSE IF d = S THEN N ELSE IF d = E THEN W ELSE E

\* values an int cell can show when read outside the allocated block
CellVals == 0..15

\* ---- bit operations on int ----
RECURSIVE BitAnd(_, _)
BitAnd(a, b) ==
    IF a = 0 \/ b = 0 THEN 0
    ELSE (IF a % 2 = 1 /\ b % 2 = 1 THEN 1 ELSE 0) + 2 * BitAnd(a \div 2, b \div 2)

RECURSIVE BitOr(_, _)
BitOr(a, b) ==
    IF a = 0 THEN b
    ELSE IF b = 0 THEN a
    ELSE (IF a % 2 = 1 \/ b % 2 = 1 THEN 1 ELSE 0) + 2 * BitOr(a \div 2, b \div 2)

\* ---- Maze::index and raw array access ----
index(w, x, y) == y * w + x

\* _grid[index(x,y)] as an rvalue: the cell when the index is inside the
\* malloc'ed block, any value otherwise (undefined behaviour)
GridRead(g, w, x, y) ==
    IF index(w, x, y) \in DOMAIN g THEN {g[index(w, x, y)]} ELSE CellVals

\* _grid[index(x,y)] = v: the cell is overwritten when the index is inside
\* the block; a store outside the block leaves the cells as they are
GridWrite(g, w, x, y, v) ==
    IF index(w, x, y) \in DOMAIN g THEN [g EXCEPT ![index(w, x, y)] = v] ELSE g

\* fault variant: plain assignment instead of |=
GridAssign(g, w, x, y, d) == {GridWrite(g, w, x, y, d)}

\* _grid[index(x,y)] |= d
GridOrAssign(g, w, x, y, d) ==
    {GridWrite(g, w, x, y, BitOr(v, d)) : v \in GridRead(g, w, x, y)}

\* grid after Maze::Maze: width*height cells, all 0
ZeroGrid(w, h) == [k \in 0..(w * h - 1) |-> 0]

VARIABLES
    width, height, seed,   \* _width, _height, _seed of each run's Maze
    grid,                  \* _grid of each run
    stack,                 \* call stack of create_passage_from frames
    pc,                    \* position of each run in main()
    line, out,             \* cout: the unfinished line and the finished lines
    di, dj,                \* loop variables i, j of Maze::draw
    draws,                 \* number of rand() calls made by each run
    entries,               \* per cell, how often create_passage_from was entered
    acc,                   \* coordinates dereferenced by the run's last step
    stream,                \* rand() values the leading run drew, not yet read by the other
    turn,                  \* run that steps next when two runs are stepped side by side
    probe                  \* last cell access made from outside a run

vars == <<width, height, seed, grid, stack, pc, line, out, di, dj, draws,
          entries, acc, stream, turn, probe>>

NoProbe == [op |-> "none"]

\* ---- frames ----
\* int directions[] = { N, S, E, W }
InitDirections == [k \in 0..3 |-> IF k = 0 THEN N ELSE IF k = 1 THEN S ELSE IF k = 2 THEN E ELSE W]

NewFrame(x, y) == [x |-> x, y |-> y, directions |-> InitDirections, i |-> 0, loop |-> "shuffle"]

Top(p) == stack[p][Len(stack[p])]

Pop(s) == SubSeq(s, 1, Len(s) - 1)

ReplaceTop(s, f) == [s EXCEPT ![Len(s)] = f]

\* temp = directions[i]; directions[i] = directions[r]; directions[r] = temp
Swap(a, i, r) == [a EXCEPT ![i] = a[r], ![r] = a[i]]

\* fault variant: r = rand() % 4, the offset i left out
ShuffleIndexNoOffset(i, v) == v % 4

\* r = i + rand() % (4-i)
ShuffleIndex(i, v) == i + (v % (4 - i))

\* fault variant: dx compared with _width instead of _width-1
InBoundsWide(w, h, dx, dy) == (dy >= 0 /\ dy <= h - 1) /\ (dx >= 0 /\ dx <= w)

\* the bounds test of the carving loop
InBounds(w, h, dx, dy) == (dy >= 0 /\ dy <= h - 1) /\ (dx >= 0 /\ dx <= w - 1)

\* the visited marker: a cell without any bit is unvisited
Unvisited(v) == v = 0

\* fault variant: the neighbour's opposite bit is not set
CarvedOneSided(g, w, x, y, dx, dy, direction) == GridOrAssign(g, w, x, y, direction)

\* _grid[index(x,y)] |= direction; _grid[index(dx,dy)] |= OPPOSITE[direction]
Carved(g, w, x, y, dx, dy, direction) ==
    UNION {GridOrAssign(g1, w, dx, dy, OPPOSITE(direction)) :
             g1 \in GridOrAssign(g, w, x, y, direction)}

\* cell (x,y) lies inside the grid
InGrid(w, h, x, y) == x >= 0 /\ x < w /\ y >= 0 /\ y < h

\* fault variant: the generator is not seeded from _seed, every run draws afresh
randUnseeded(p) == {[v |-> v, s |-> stream] : v \in RandVals}

\* ---- srand(_seed) / rand() ----
\* Outcomes of one rand() call by run p: the value, and what is left for the
\* other run to read.  Runs seeded alike read one stream: the run that is
\* behind takes the value the leading run drew at that position.
rand(p) ==
    IF pc[Other(p)] = "off"
    THEN {[v |-> v, s |-> stream] : v \in RandVals}
    ELSE IF draws[p] < draws[Other(p)] /\ stream # <<>>
         THEN {[v |-> Head(stream), s |-> Tail(stream)]}
         ELSE {[v |-> v, s |-> Append(stream, v)] : v \in RandVals}

\* ---- decimal output of an int (operator<<) ----
Digit(n) == CASE n = 0 -> "0" [] n = 1 -> "1" [] n = 2 -> "2" [] n = 3 -> "3"
              [] n = 4 -> "4" [] n = 5 -> "5" [] n = 6 -> "6" [] n = 7 -> "7"
              [] n = 8 -> "8" [] n = 9 -> "9"

RECURSIVE DecNat(_)
DecNat(n) == IF n < 10 THEN <<Digit(n)>> ELSE DecNat(n \div 10) \o <<Digit(n % 10)>>

DecStr(n) == IF n < 0 THEN <<"-">> \o DecNat(-n) ELSE DecNat(n)

Repeat(c, n) == [k \in 1..n |-> c]

\* fault variant: 2*_width underscores
TopLineLong(w) == <<" ">> \o Repeat("_", 2 * w)

\* " " then 2*_width - 1 times "_"
TopLine(w) == <<" ">> \o Repeat("_", 2 * w - 1)

\* fault variant: the metadata line without its leading space
MetaLineNoIndent(w, h, s) ==
    <<"w", "i", "d", "t", "h", ":", " ">> \o DecStr(w)
    \o <<",", " ", "h", "e", "i", "g", "h", "t", ":", " ">> \o DecStr(h)
    \o <<",", " ", "s", "e", "e", "d", ":", " ">> \o DecStr(s)

\* " width: " << _width << ", height: " << _height << ", seed: " << _seed
MetaLine(w, h, s) ==
    <<" ", "w", "i", "d", "t", "h", ":", " ">> \o DecStr(w)
    \o <<",", " ", "h", "e", "i", "g", "h", "t", ":", " ">> \o DecStr(h)
    \o <<",", " ", "s", "e", "e", "d", ":", " ">> \o DecStr(s)

\* first glyph of a cell: its floor
FloorGlyph(val) == IF BitAnd(val, S) # 0 THEN " " ELSE "_"

\* fault variant: the West bit tested instead of the East bit
EastOpenWrongBit(val) == BitAnd(val, W) # 0

\* the cell has an open East passage, so the East neighbour is read
EastOpen(val) == BitAnd(val, E) # 0

\* fault variant: an open East passage always drawn as a gap
PassageGlyphGap(val, east) == " "

\* second glyph of a cell with an open East passage, east being the
\* neighbour's value
PassageGlyph(val, east) == IF BitAnd(BitOr(val, east), S) # 0 THEN " " ELSE "_"

\* ---- initial states ----
InitRun(w, h, s, started) ==
    /\ width = [p \in Runs |-> w]
    /\ height = [p \in Runs |-> h]
    /\ seed = [p \in Runs |-> s]
    /\ grid = [p \in Runs |-> ZeroGrid(w, h)]
    /\ stack = [p \in Runs |-> <<>>]
    /\ pc = [p \in Runs |-> IF p \in started THEN "ctor" ELSE "off"]
    /\ line = [p \in Runs |-> <<>>]
    /\ out = [p \in Runs |-> <<>>]
    /\ di = [p \in Runs |-> 0]
    /\ dj = [p \in Runs |-> 0]
    /\ draws = [p \in Runs |-> 0]
    /\ entries = [p \in Runs |-> ZeroGrid(w, h)]
    /\ acc = [p \in Runs |-> {}]
    /\ stream = <<>>
    /\ turn = 1
    /\ probe = NoProbe

\* one run: Maze::Maze(w, h, s) has returned
Init == \E d \in Dims, s \in Seeds : InitRun(d[1], d[2], s, {1})

\* two runs constructed with the same (w, h, s)
InitDet == \E d \in Dims, s \in Seeds : InitRun(d[1], d[2], s, {1, 2})

\* Run p steps when it is its turn; with a second run started, the turn
\* passes to it.
Yield(p) ==
    /\ turn = p
    /\ turn' = IF pc[Other(p)] = "off" THEN p ELSE Other(p)

\* ---- BackTracker::BackTracker: create_passage_from(0,0) ----
Start(p) ==
    /\ pc[p] = "ctor"
    /\ Yield(p)
    /\ pc' = [pc EXCEPT ![p] = "carve"]
    /\ stack' = [stack EXCEPT ![p] = <<NewFrame(0, 0)>>]
    /\ entries' = [entries EXCEPT ![p][index(width[p], 0, 0)] = @ + 1]
    /\ acc' = [acc EXCEPT ![p] = {}]
    /\ UNCHANGED <<width, height, seed, grid, line, out, di, dj, draws, stream, probe>>

\* ---- create_passage_from: one iteration of the shuffle loop ----
ShuffleStep(p) ==
    /\ pc[p] = "carve"
    /\ Yield(p)
    /\ stack[p] # <<>>
    /\ Top(p).loop = "shuffle"
    /\ Top(p).i < 4
    /\ \E o \in rand(p) :
         LET f == Top(p)
             r == ShuffleIndex(f.i, o.v)
             g == [f EXCEPT !.directions = Swap(f.directions, f.i, r),
                            !.i = IF f.i + 1 < 4 THEN f.i + 1 ELSE 0,
                            !.loop = IF f.i + 1 < 4 THEN "shuffle" ELSE "carve"]
         IN /\ stack' = [stack EXCEPT ![p] = ReplaceTop(stack[p], g)]
            /\ stream' = o.s
    /\ draws' = [draws EXCEPT ![p] = @ + 1]
    /\ acc' = [acc EXCEPT ![p] = {}]
    /\ UNCHANGED <<width, height, seed, grid, pc, line, out, di, dj, entries, probe>>

\* ---- create_passage_from: one iteration of the carving loop ----
\* the neighbour is in bounds and unvisited: carve both bits and recurse
TryCarve(p) ==
    /\ pc[p] = "carve"
    /\ Yield(p)
    /\ stack[p] # <<>>
    /\ Top(p).loop = "carve"
    /\ Top(p).i < 4
    /\ LET f == Top(p)
           direction == f.directions[f.i]
           dx == f.x + DX(direction)
           dy == f.y + DY(direction)
       IN /\ InBounds(width[p], height[p], dx, dy)
          /\ \E v \in GridRead(grid[p], width[p], dx, dy) : Unvisited(v)
          /\ \E g2 \in Carved(grid[p], width[p], f.x, f.y, dx, dy, direction) :
               grid' = [grid EXCEPT ![p] = g2]
          /\ stack' = [stack EXCEPT ![p] =
                          Append(ReplaceTop(stack[p], [f EXCEPT !.i = f.i + 1]),
                                 NewFrame(dx, dy))]
          /\ entries' = [entries EXCEPT ![p] =
                            IF index(width[p], dx, dy) \in DOMAIN entries[p]
                            THEN [entries[p] EXCEPT ![index(width[p], dx, dy)] = @ + 1]
                            ELSE entries[p]]
          /\ acc' = [acc EXCEPT ![p] = {<<dx, dy>>, <<f.x, f.y>>}]
    /\ UNCHANGED <<width, height, seed, pc, line, out, di, dj, draws, stream, probe>>

\* the neighbour is out of bounds (not read then) or already has a bit set
TrySkip(p) ==
    /\ pc[p] = "carve"
    /\ Yield(p)
    /\ stack[p] # <<>>
    /\ Top(p).loop = "carve"
    /\ Top(p).i < 4
    /\ LET f == Top(p)
           direction == f.directions[f.i]
           dx == f.x + DX(direction)
           dy == f.y + DY(direction)
       IN /\ \/ /\ ~InBounds(width[p], height[p], dx, dy)
                /\ acc' = [acc EXCEPT ![p] = {}]
             \/ /\ InBounds(width[p], height[p], dx, dy)
                /\ \E v \in GridRead(grid[p], width[p], dx, dy) : ~Unvisited(v)
                /\ acc' = [acc EXCEPT ![p] = {<<dx, dy>>}]
          /\ stack' = [stack EXCEPT ![p] = ReplaceTop(stack[p], [f EXCEPT !.i = f.i + 1])]
    /\ UNCHANGED <<width, height, seed, grid, pc, line, out, di, dj, draws, entries, stream, probe>>

\* ---- create_passage_from returns; the outermost return ends the
\* constructor and main() goes on to m->draw() ----
Return(p) ==
    /\ pc[p] = "carve"
    /\ Yield(p)
    /\ stack[p] # <<>>
    /\ Top(p).loop = "carve"
    /\ Top(p).i = 4
    /\ stack' = [stack EXCEPT ![p] = Pop(stack[p])]
    /\ pc' = [pc EXCEPT ![p] = IF Len(stack[p]) = 1 THEN "draw_top" ELSE "carve"]
    /\ acc' = [acc EXCEPT ![p] = {}]
    /\ UNCHANGED <<width, height, seed, grid, line, out, di, dj, draws, entries, stream, probe>>

\* ---- Maze::draw ----
DrawTop(p) ==
    /\ pc[p] = "draw_top"
    /\ Yield(p)
    /\ out' = [out EXCEPT ![p] = Append(out[p], TopLine(width[p]))]
    /\ dj' = [dj EXCEPT ![p] = 0]
    /\ pc' = [pc EXCEPT ![p] = IF 0 < height[p] THEN "row_begin" ELSE "draw_meta"]
    /\ acc' = [acc EXCEPT ![p] = {}]
    /\ UNCHANGED <<width, height, seed, grid, stack, line, di, draws, entries, stream, probe>>

DrawRowBegin(p) ==
    /\ pc[p] = "row_begin"
    /\ Yield(p)
    /\ line' = [line EXCEPT ![p] = <<"|">>]
    /\ di' = [di EXCEPT ![p] = 0]
    /\ pc' = [pc EXCEPT ![p] = IF 0 < width[p] THEN "draw_cell" ELSE "row_end"]
    /\ acc' = [acc EXCEPT ![p] = {}]
    /\ UNCHANGED <<width, height, seed, grid, stack, out, dj, draws, entries, stream, probe>>

DrawCell(p) ==
    /\ pc[p] = "draw_cell"
    /\ Yield(p)
    /\ \E val \in GridRead(grid[p], width[p], di[p], dj[p]) :
         \/ /\ EastOpen(val)
            /\ \E east \in GridRead(grid[p], width[p], di[p] + 1, dj[p]) :
                 line' = [line EXCEPT ![p] = line[p] \o <<FloorGlyph(val), PassageGlyph(val, east)>>]
            /\ acc' = [acc EXCEPT ![p] = {<<di[p], dj[p]>>, <<di[p] + 1, dj[p]>>}]
         \/ /\ ~EastOpen(val)
            /\ line' = [line EXCEPT ![p] = line[p] \o <<FloorGlyph(val), "|">>]
            /\ acc' = [acc EXCEPT ![p] = {<<di[p], dj[p]>>}]
    /\ di' = [di EXCEPT ![p] = @ + 1]
    /\ pc' = [pc EXCEPT ![p] = IF di[p] + 1 < width[p] THEN "draw_cell" ELSE "row_end"]
    /\ UNCHANGED <<width, height, seed, grid, stack, out, dj, draws, entries, stream, probe>>

DrawRowEnd(p) ==
    /\ pc[p] = "row_end"
    /\ Yield(p)
    /\ out' = [out EXCEPT ![p] = Append(out[p], line[p])]
    /\ line' = [line EXCEPT ![p] = <<>>]
    /\ dj' = [dj EXCEPT ![p] = @ + 1]
    /\ pc' = [pc EXCEPT ![p] = IF dj[p] + 1 < height[p] THEN "row_begin" ELSE "draw_meta"]
    /\ acc' = [acc EXCEPT ![p] = {}]
    /\ UNCHANGED <<width, height, seed, grid, stack, di, draws, entries, stream, probe>>

DrawMeta(p) ==
    /\ pc[p] = "draw_meta"
    /\ Yield(p)
    /\ out' = [out EXCEPT ![p] = Append(out[p], MetaLine(width[p], height[p], seed[p]))]
    /\ pc' = [pc EXCEPT ![p] = "done"]
    /\ acc' = [acc EXCEPT ![p] = {}]
    /\ UNCHANGED <<width, height, seed, grid, stack, line, di, dj, draws, entries, stream, probe>>

Next ==
    \E p \in Runs :
        \/ Start(p)
        \/ ShuffleStep(p)
        \/ TryCarve(p)
        \/ TrySkip(p)
        \/ Return(p)
        \/ DrawTop(p)
        \/ DrawRowBegin(p)
        \/ DrawCell(p)
        \/ DrawRowEnd(p)
        \/ DrawMeta(p)

\* one run
Spec == Init /\ [][Next]_vars

\* the program runs to completion: no step that is possible is put off forever
FairSpec == Spec /\ WF_vars(Next)

\* ---- two runs with the same (width, height, seed), stepped side by side ----
SpecDet == InitDet /\ [][Next]_vars

\* ---- a cell access with arbitrary coordinates, after the run ----
\* val = _grid[index(x,y)]
CellRead(p, x, y) ==
    /\ pc[p] = "done"
    /\ probe = NoProbe
    /\ \E v \in GridRead(grid[p], width[p], x, y) :
         probe' = [op |-> "read", x |-> x, y |-> y, touched |-> {index(width[p], x, y)},
                   outcome |-> "value", val |-> v, before |-> grid[p]]
    /\ UNCHANGED <<width, height, seed, grid, stack, pc, line, out, di, dj, draws,
                   entries, acc, stream, turn>>

\* _grid[index(x,y)] |= d
CellOrAssign(p, x, y, d) ==
    /\ pc[p] = "done"
    /\ probe = NoProbe
    /\ \E g \in GridOrAssign(grid[p], width[p], x, y, d) :
         /\ grid' = [grid EXCEPT ![p] = g]
         /\ probe' = [op |-> "write", x |-> x, y |-> y, touched |-> {index(width[p], x, y)},
                      outcome |-> "stored", val |-> d, before |-> grid[p]]
    /\ UNCHANGED <<width, height, seed, stack, pc, line, out, di, dj, draws,
                   entries, acc, stream, turn>>

\* coordinates from one outside the grid on each side
ProbeX(p) == -1..width[p]

ProbeY(p) == -1..height[p]

NextAccess ==
    \/ Next
    \/ \E x \in ProbeX(1), y \in ProbeY(1) : CellRead(1, x, y)
    \/ \E x \in ProbeX(1), y \in ProbeY(1), d \in {N, S, E, W} : CellOrAssign(1, x, y, d)

SpecAccess == Init /\ [][NextAccess]_vars

\* ======================= properties =======================
\* the run under observation
R == 1

Cells(p) == 0..(width[p] * height[p] - 1)

CellX(p, k) == k % width[p]

CellY(p, k) == k \div width[p]

Dirs == {N, S, E, W}

HasBit(v, d) == (v \div d) % 2 = 1

\* create_passage_from(0,0) has returned
CarveReturned(p) == pc[p] \notin {"off", "ctor", "carve"}

\* cells a and b are adjacent and both hold the bit toward the other
Joined(p, a, b) ==
    \E d \in Dirs :
        /\ CellX(p, b) = CellX(p, a) + DX(d)
        /\ CellY(p, b) = CellY(p, a) + DY(d)
        /\ HasBit(grid[p][a], d)
        /\ HasBit(grid[p][b], OPPOSITE(d))

Edges(p) == {e \in SUBSET Cells(p) : \E a \in e, b \in e : a # b /\ e = {a, b} /\ Joined(p, a, b)}

RECURSIVE ReachVia(_, _)
ReachVia(edges, seen) ==
    LET more == seen \cup {k \in UNION edges : \E e \in edges : k \in e /\ e \cap seen # {}}
    IN IF more = seen THEN seen ELSE ReachVia(edges, more)

\* C1: once the carve started at (0,0) has returned, the passage graph is a
\* spanning tree: every cell is reachable from (0,0), there are exactly
\* width*height - 1 edges, and no edge lies on a cycle (removing any edge
\* disconnects the graph).
C1_SpanningTree ==
    CarveReturned(R) =>
        /\ ReachVia(Edges(R), {0}) = Cells(R)
        /\ Cardinality(Edges(R)) = width[R] * height[R] - 1
        /\ \A e \in Edges(R) : ReachVia(Edges(R) \ {e}, {0}) # Cells(R)

C1_Witness ==
    /\ pc[R] = "done"
    /\ width[R] = 2 /\ height[R] = 2
    /\ Cardinality(Edges(R)) = 3

\* C2: in every state between the steps of create_passage_from and in the
\* final grid, a cell has bit d set exactly when its neighbour in direction
\* d is inside the grid and has the opposite bit set; no bit points outside.
C2_Symmetry ==
    \A k \in Cells(R), d \in Dirs :
        LET nx == CellX(R, k) + DX(d)
            ny == CellY(R, k) + DY(d)
        IN HasBit(grid[R][k], d) <=>
               /\ InGrid(width[R], height[R], nx, ny)
               /\ HasBit(grid[R][index(width[R], nx, ny)], OPPOSITE(d))

C2_Witness ==
    /\ pc[R] = "carve"
    /\ Len(stack[R]) = 3
    /\ width[R] = 2 /\ height[R] = 2
    /\ HasBit(grid[R][0], S) /\ HasBit(grid[R][2], N) /\ HasBit(grid[R][2], E)

\* C3: two runs with the same width, height and seed, stepped side by side,
\* hold identical grids and identical output after equally many steps, and
\* end with identical cell arrays and identical rendered output.
C3_Determinism ==
    /\ (turn = 1 => grid[1] = grid[2] /\ out[1] = out[2] /\ line[1] = line[2])
    /\ (pc[1] = "done" /\ pc[2] = "done" => grid[1] = grid[2] /\ out[1] = out[2])

C3_Witness ==
    /\ pc[1] = "done" /\ pc[2] = "done"
    /\ width[1] = 2 /\ height[1] = 2
    /\ grid[2][0] = E
    /\ Len(out[2]) = 4

\* C4: an access at a coordinate outside the grid fails with OutOfBounds and
\* leaves the grid unchanged; it dereferences no index, neither another
\* cell's slot nor one outside [0, width*height).
C4_OutOfBoundsFails ==
    (probe.op # "none" /\ ~InGrid(width[R], height[R], probe.x, probe.y)) =>
        /\ probe.outcome = "OutOfBounds"
        /\ grid[R] = probe.before
        /\ probe.touched = {}

\* C5: every coordinate dereferenced by a step of the run (carving or
\* drawing) lies inside the grid.
C5_AccessInGrid ==
    \A c \in acc[R] : InGrid(width[R], height[R], c[1], c[2])

C5_Witness ==
    /\ pc[R] \in {"draw_cell", "row_end"}
    /\ width[R] = 2
    /\ acc[R] = {<<0, dj[R]>>, <<1, dj[R]>>}

RECURSIVE SumUpTo(_, _)
SumUpTo(f, n) == IF n < 0 THEN 0 ELSE f[n] + SumUpTo(f, n - 1)

\* number of times create_passage_from was entered so far
TotalEntries(p) == SumUpTo(entries[p], width[p] * height[p] - 1)

\* draws still to come in the call on top of the stack
DrawsPending(p) ==
    IF stack[p] # <<>> /\ Top(p).loop = "shuffle" THEN 4 - Top(p).i ELSE 0

C6_State ==
    /\ \A n \in 1..Len(stack[R]) : {stack[R][n].directions[k] : k \in 0..3} = Dirs
    /\ draws[R] = 4 * TotalEntries(R) - DrawsPending(R)
    /\ (CarveReturned(R) => draws[R] = 4 * width[R] * height[R])

C6_Draw ==
    draws'[R] # draws[R] =>
        /\ draws'[R] = draws[R] + 1
        /\ Top(R).loop = "shuffle"
        /\ Top(R).i = draws[R] % 4
        /\ Len(stack'[R]) = Len(stack[R])
        /\ \E r \in Top(R).i..3 :
             stack'[R][Len(stack[R])].directions = Swap(Top(R).directions, Top(R).i, r)

\* C6 (amended): each call of create_passage_from shuffles {N,S,E,W} with
\* exactly four draws, for i = 0, 1, 2, 3 in that order, each draw r lying in
\* [i, 3] and followed by a swap of the elements at i and r; a complete carve
\* of a W x H grid consumes exactly 4*W*H draws, and the list is always a
\* permutation of the four directions.
C6_FourDraws == []C6_State /\ [][C6_Draw]_vars

C6_Witness ==
    /\ pc[R] = "done"
    /\ width[R] = 2 /\ height[R] = 2
    /\ draws[R] = 16

\* C6 (as claimed): three draws per call, so a complete carve of a W x H
\* grid has consumed exactly 3*W*H draws.
C6_ThreeDraws == CarveReturned(R) => draws[R] = 3 * width[R] * height[R]

C7_State ==
    /\ \A k \in Cells(R) : entries[R][k] <= 1
    /\ Len(stack[R]) <= width[R] * height[R]
    /\ (CarveReturned(R) => TotalEntries(R) = width[R] * height[R])
    /\ (TotalEntries(R) = 1 /\ DrawsPending(R) = 4 => grid[R][0] = 0)

\* C7: the carve eventually returns; create_passage_from is entered exactly
\* once per cell (never twice for one cell, width*height entries in all), the
\* start cell (0,0) has state 0 when first entered, and the recursion depth
\* never exceeds width*height.
C7_Termination == <>CarveReturned(R) /\ []C7_State

C7_Witness ==
    /\ width[R] = 2 /\ height[R] = 2
    /\ Len(stack[R]) = 4
    /\ TotalEntries(R) = 4

\* C8: draw emits exactly H+2 lines; the top border is one space followed by
\* 2*W - 1 underscores; every row line has exactly 2*W + 1 characters, begins
\* with '|' and ends with '|'.
C8_RenderSize ==
    pc[R] = "done" =>
        /\ Len(out[R]) = height[R] + 2
        /\ Len(out[R][1]) = 2 * width[R]
        /\ out[R][1][1] = " "
        /\ \A k \in 2..(2 * width[R]) : out[R][1][k] = "_"
        /\ \A j \in 2..(height[R] + 1) :
             /\ Len(out[R][j]) = 2 * width[R] + 1
             /\ out[R][j][1] = "|"
             /\ out[R][j][2 * width[R] + 1] = "|"

C8_Witness ==
    /\ pc[R] = "done"
    /\ width[R] = 2 /\ height[R] = 2
    /\ Len(out[R]) = 4
    /\ Len(out[R][3]) = 5

\* text "width: 1, height: 1, seed: " of the 1x1 metadata line
MetaText1x1 ==
    <<"w", "i", "d", "t", "h", ":", " ", "1", ",", " ",
      "h", "e", "i", "g", "h", "t", ":", " ", "1", ",", " ",
      "s", "e", "e", "d", ":", " ">>

\* C9 (amended): with width = 1 and height = 1 and any seed S, the carve
\* enters only cell (0,0), sets no bit, and the output is exactly the three
\* lines " _", "|_|" and " width: 1, height: 1, seed: <S>": the metadata line
\* begins with one space before the word width.
C9_OneByOne ==
    (pc[R] = "done" /\ width[R] = 1 /\ height[R] = 1) =>
        /\ grid[R] = ZeroGrid(1, 1)
        /\ entries[R][0] = 1
        /\ out[R] = << <<" ", "_">>, <<"|", "_", "|">>,
                       <<" ">> \o MetaText1x1 \o DecStr(seed[R]) >>

C9_Witness ==
    /\ pc[R] = "done"
    /\ width[R] = 1 /\ height[R] = 1
    /\ Len(out[R]) = 3

\* C9 (as claimed): the metadata line begins with the word width, with
\* nothing before it.
C9_MetaStartsWithWidth ==
    (pc[R] = "done" /\ width[R] = 1 /\ height[R] = 1) =>
        /\ grid[R] = ZeroGrid(1, 1)
        /\ entries[R][0] = 1
        /\ out[R] = << <<" ", "_">>, <<"|", "_", "|">>,
                       MetaText1x1 \o DecStr(seed[R]) >>

\* C10 (amended): with width = 2 and height = 1 exactly one passage is
\* carved (cell (0,0) ends with exactly the East bit, cell (1,0) with exactly
\* the West bit), and the row line is "|___|": the character at the
\* shared-wall position (the third) is '_', the floor drawn through the
\* opening, and not '|'.
C10_TwoByOne ==
    (pc[R] = "done" /\ width[R] = 2 /\ height[R] = 1) =>
        /\ grid[R][0] = E
        /\ grid[R][1] = W
        /\ Cardinality(Edges(R)) = 1
        /\ out[R][2] = <<"|", "_", "_", "_", "|">>

C10_Witness ==
    /\ pc[R] = "done"
    /\ width[R] = 2 /\ height[R] = 1
    /\ Len(out[R][2]) = 5

\* C10 (as claimed): the character at the shared-wall position is neither
\* '|' nor '_'.
C10_NoGlyphAtPassage ==
    (pc[R] = "done" /\ width[R] = 2 /\ height[R] = 1) =>
        /\ grid[R][0] = E
        /\ grid[R][1] = W
        /\ out[R][2][3] \notin {"|", "_"}

====
